---- MODULE Spec2Model ----
(***************************************************************************)
(* Invoice-financing program (programs/invoice-financing/src/lib.rs):      *)
(* the invoice lifecycle PendingFunding -> Funded -> {Repaid | Defaulted}, *)
(* the risk engine that prices an invoice at creation, and the token       *)
(* movements of fund_invoice, repay_invoice and claim_insurance.           *)
(*                                                                         *)
(* Amounts are u64 in the program and reach 10^10 and beyond, which TLC's  *)
(* 32-bit integers cannot hold.  A u64 (and any intermediate sum) is       *)
(* therefore a tuple of four digits of radix Base, least significant       *)
(* first, and the arithmetic below is exact long arithmetic on those       *)
(* digits; no result depends on the radix.                                 *)
(* Timestamps (i64 in the program) stay below 2^31 and are plain integers. *)
(***************************************************************************)
EXTENDS Integers, Sequences, FiniteSets, TLC

VARIABLES now, global_state, invoices, token

vars == <<now, global_state, invoices, token>>

(***************************************************************************)
(* Exact arithmetic on four-digit numbers                                  *)
(***************************************************************************)
\* The radix of the digits: four digits reach past 2^65, and a digit times
\* the largest multiplier used (20000) stays below 2^31.
Base == 100000

\* The number n (0 <= n < 2^31) as digits.
Num(n) == <<n % Base, (n \div Base) % Base, (n \div Base) \div Base, 0>>

Zero == Num(0)

Add(a, b) ==
    LET s1 == a[1] + b[1]
        s2 == a[2] + b[2] + (s1 \div Base)
        s3 == a[3] + b[3] + (s2 \div Base)
        s4 == a[4] + b[4] + (s3 \div Base)
    IN  <<s1 % Base, s2 % Base, s3 % Base, s4 % Base>>

Lt(a, b) ==
    \/ a[4] < b[4]
    \/ a[4] = b[4] /\ a[3] < b[3]
    \/ a[4] = b[4] /\ a[3] = b[3] /\ a[2] < b[2]
    \/ a[4] = b[4] /\ a[3] = b[3] /\ a[2] = b[2] /\ a[1] < b[1]

Le(a, b) == a = b \/ Lt(a, b)

\* a - b for b <= a.
Sub(a, b) ==
    LET d1 == a[1] - b[1]
        w1 == IF d1 < 0 THEN 1 ELSE 0
        d2 == a[2] - b[2] - w1
        w2 == IF d2 < 0 THEN 1 ELSE 0
        d3 == a[3] - b[3] - w2
        w3 == IF d3 < 0 THEN 1 ELSE 0
        d4 == a[4] - b[4] - w3
    IN  <<d1 + w1 * Base, d2 + w2 * Base, d3 + w3 * Base, d4>>

\* a * m for a small multiplier 0 <= m <= 20000.
Mul(a, m) ==
    LET p1 == a[1] * m
        p2 == a[2] * m + (p1 \div Base)
        p3 == a[3] * m + (p2 \div Base)
        p4 == a[4] * m + (p3 \div Base)
    IN  <<p1 % Base, p2 % Base, p3 % Base, p4 % Base>>

\* floor(a / d) for a small divisor 1 <= d <= 10000 (integer division of u64).
Div(a, d) ==
    LET r4 == a[4] % d
        t3 == r4 * Base + a[3]
        t2 == (t3 % d) * Base + a[2]
        t1 == (t2 % d) * Base + a[1]
    IN  <<t1 \div d, t2 \div d, t3 \div d, a[4] \div d>>

RECURSIVE TwoTo(_)
\* 2^k.
TwoTo(k) == IF k = 0 THEN Num(1) ELSE Mul(TwoTo(k - 1), 2)

\* 2^64 and u64::MAX = 18446744073709551615.
TWO_64 == TwoTo(64)

U64_MAX == Sub(TWO_64, Num(1))

Overflows(x) == Lt(U64_MAX, x)

\* The value a u64 holds after an unchecked operation whose exact result is
\* x < 2^65.
Wrap(x) == IF Overflows(x) THEN Sub(x, TWO_64) ELSE x

(***************************************************************************)
(* Program constants                                                       *)
(***************************************************************************)
DAY == 86400

\* grace_period = 30 * 86400 (repay_invoice) and the claim delay (claim_insurance).
GRACE_PERIOD == 30 * DAY

\* 365 * 24 * 3600: the furthest due date create_invoice accepts.
MAX_TERM == 365 * 24 * 3600

\* 10_000_000_000: the largest amount create_invoice accepts.
MAX_AMOUNT == Mul(Num(1000000), 10000)

\* Pubkey::default(), the investor of an invoice nobody funded yet.
DefaultPubkey == 0

\* The address of the insurance pool's token account (seeds "insurance_pool").
InsurancePool == 65535

\* Option<T>: None, Some(v).
None == <<>>

Some(v) == <<v>>

(***************************************************************************)
(* Bounds of the model and the inputs the operations are tried with        *)
(***************************************************************************)
\* The clock when the program is initialized.
StartTime == 1000

\* The term, in days, of the invoices the ledger specifications create.
TermDays == 100

\* A late repayment is tried LateDays days and LateSeconds seconds after the
\* due date.
LateDays == 10

LateSeconds == 7

InvoiceIds == {1, 2}

\* Signers.  A key's first byte is key % 256: 67 gives the pseudo credit
\* score 801 (no risk added), 134 gives 152 (15 added).
Parties == {67, 134}

Accounts == Parties \cup {InsurancePool}

\* Every party starts with 60_000_000 units of the settlement asset and the
\* pool's account starts empty.
InitialBalance == Num(60000000)

DueDate1 == StartTime + TermDays * DAY

LateInstant == DueDate1 + LateDays * DAY + LateSeconds

\* The clock readings of Spec: before the due date, late within the grace
\* period, and after it.
Instants == {StartTime, LateInstant, DueDate1 + GRACE_PERIOD + 1}

\* The clock readings of SpecClock: also the due date itself, the second
\* after it and the last second of the grace period.
FineInstants ==
    Instants \cup {DueDate1, DueDate1 + 1, DueDate1 + GRACE_PERIOD}

\* The clock readings of SpecWindow: the last second of the grace period and
\* the first second after it.
WindowInstants ==
    {StartTime, DueDate1 + GRACE_PERIOD, DueDate1 + GRACE_PERIOD + 1}

\* The amounts of SpecPair: the two smallest there are, and one of Spec's.
PairAmounts == {Num(1), Num(2), Num(1000000)}

ValidAmounts == {Num(1000000), Num(50000000)}

RepayAmounts == ValidAmounts \cup {U64_MAX}

\* The inputs of SpecCreate: amounts at the edges of the risk tiers and of
\* the accepted range, due dates at the edges of the term tiers and of the
\* accepted range, debtor_info lengths around 10 and 200, and owners whose
\* first byte lies at the edges of the credit brackets.
WideAmounts ==
    {Zero, Num(1), Num(999), Num(1234567), Num(10000000), Num(10000001),
     Num(50000000), Num(50000001), Num(100000001), Num(500000001),
     MAX_AMOUNT, Add(MAX_AMOUNT, Num(1))}

WideDueDates ==
    {StartTime + d : d \in {0, 1, 8 * DAY - 1, 8 * DAY, 15 * DAY, 31 * DAY,
                            61 * DAY, 91 * DAY, MAX_TERM, MAX_TERM + 1}}

DebtorInfoLens == {9, 10, 201}

WideOwners == {256 + b : b \in {0, 16, 17, 34, 50, 66, 67, 83, 84, 255}}

(***************************************************************************)
(* Risk engine: calculate_enhanced_risk                                    *)
(***************************************************************************)
Min(a, b) == IF a <= b THEN a ELSE b

\* business_owner.to_bytes()[0]
FirstByte(key) == key % 256

\* Mutation of AmountRisk: the smallest amounts add no risk.
AmountRisk_M(amount) ==
    IF Le(amount, Num(10000000)) THEN 0
    ELSE IF Le(amount, Num(50000000)) THEN 10
    ELSE IF Le(amount, Num(100000000)) THEN 15
    ELSE IF Le(amount, Num(500000000)) THEN 25
    ELSE 35

AmountRisk(amount) ==
    IF Le(amount, Num(10000000)) THEN 5
    ELSE IF Le(amount, Num(50000000)) THEN 10
    ELSE IF Le(amount, Num(100000000)) THEN 15
    ELSE IF Le(amount, Num(500000000)) THEN 25
    ELSE 35

DurationRisk(days_to_due) ==
    IF days_to_due < 0 THEN 0
    ELSE IF days_to_due <= 7 THEN 20
    ELSE IF days_to_due <= 14 THEN 15
    ELSE IF days_to_due <= 30 THEN 10
    ELSE IF days_to_due <= 60 THEN 5
    ELSE IF days_to_due <= 90 THEN 2
    ELSE 0

pseudo_credit_score(business_owner) ==
    ((FirstByte(business_owner) * 3) + 600) % 850

CreditRisk(score) ==
    IF score >= 800 /\ score <= 850 THEN 0
    ELSE IF score >= 750 /\ score <= 799 THEN 2
    ELSE IF score >= 700 /\ score <= 749 THEN 5
    ELSE IF score >= 650 /\ score <= 699 THEN 10
    ELSE 15

industry_risk == 5

\* The exact sum the u8 accumulator risk_score is asked to hold before the cap.
RiskSum(amount, due_date, business_owner, current_time) ==
    10 + AmountRisk(amount)
       + DurationRisk((due_date - current_time) \div DAY)
       + CreditRisk(pseudo_credit_score(business_owner))
       + industry_risk

\* Mutation of calculate_enhanced_risk: the score is not capped at 50.
calculate_enhanced_risk_M(amount, due_date, business_owner, current_time) ==
    LET risk_score ==
            RiskSum(amount, due_date, business_owner, current_time) % 256
    IN  [risk_score |-> risk_score,
         industry_risk |-> industry_risk,
         estimated_credit_score |-> pseudo_credit_score(business_owner),
         estimated_yield |-> 500 + risk_score * 20]

calculate_enhanced_risk(amount, due_date, business_owner, current_time) ==
    LET risk_score ==
            Min(RiskSum(amount, due_date, business_owner, current_time) % 256, 50)
    IN  [risk_score |-> risk_score,
         industry_risk |-> industry_risk,
         estimated_credit_score |-> pseudo_credit_score(business_owner),
         estimated_yield |-> 500 + risk_score * 20]

\* insurance_premium = (amount * risk_score as u64) / 1000
\* Mutation of InsurancePremium: the premium is the whole amount.
InsurancePremium_M(amount, risk_score) == amount

InsurancePremium(amount, risk_score) == Div(Mul(amount, risk_score), 1000)

(***************************************************************************)
(* State                                                                   *)
(*   now          Clock::get()?.unix_timestamp                             *)
(*   global_state the GlobalState account                                  *)
(*   invoices     the Invoice accounts that exist, by invoice_id           *)
(*   token        the settlement-asset balance of each token account       *)
(* Token accounts are named by their authority; the mint each one is bound *)
(* to by the account constraints is not modelled (one settlement asset).   *)
(* What an instruction returns is the value of its <name>_result operator: *)
(* "Ok" or the error.  An instruction that returns an error or panics is   *)
(* rolled back whole by the runtime and changes no account.                *)
(***************************************************************************)
Init ==
    /\ now = StartTime
    /\ global_state = [total_invoices |-> Zero,
                       total_funded |-> Zero,
                       insurance_pool_balance |-> Zero]
    /\ invoices = <<>>
    /\ token = [a \in Accounts |->
                    IF a = InsurancePool THEN Zero ELSE InitialBalance]

\* Mutation of Transfer: the destination is credited, the source not debited.
Transfer_M(bal, from, to, amount) ==
    IF from = to THEN bal ELSE [bal EXCEPT ![to] = Add(@, amount)]

\* token::transfer(ctx, amount): the token program leaves a transfer from an
\* account to itself without effect.
Transfer(bal, from, to, amount) ==
    IF from = to THEN bal
    ELSE [bal EXCEPT ![from] = Sub(@, amount), ![to] = Add(@, amount)]

(***************************************************************************)
(* create_invoice                                                          *)
(***************************************************************************)
NewInvoice(invoice_id, amount, due_date, debtor_info, business_owner, t) ==
    LET risk_assessment ==
            calculate_enhanced_risk(amount, due_date, business_owner, t)
    IN  [invoice_id |-> invoice_id,
         business_owner |-> business_owner,
         amount |-> amount,
         due_date |-> due_date,
         debtor_info |-> debtor_info,
         status |-> "PendingFunding",
         risk_score |-> risk_assessment.risk_score,
         insurance_premium |->
             InsurancePremium(amount, risk_assessment.risk_score),
         created_at |-> t,
         funded_amount |-> Zero,
         investor |-> DefaultPubkey,
         funding_date |-> None,
         repayment_date |-> None,
         expected_return |-> None,
         final_repayment_amount |-> None,
         late_fee |-> None,
         insurance_claim_date |-> None,
         insurance_payout |-> None,
         industry_risk |-> risk_assessment.industry_risk,
         credit_score |-> risk_assessment.estimated_credit_score,
         payment_terms_days |-> ((due_date - t) \div DAY) % 65536]

\* Mutation of create_invoice_result: the due date is examined before the
\* amount.
create_invoice_result_M(invoice_id, amount, due_date, debtor_info) ==
    IF invoice_id \in DOMAIN invoices THEN "AccountAlreadyInUse"
    ELSE IF ~(due_date > now) THEN "InvalidDueDate"
    ELSE IF ~(due_date <= now + MAX_TERM) THEN "DueDateTooFar"
    ELSE IF ~Lt(Zero, amount) THEN "InvalidAmount"
    ELSE IF ~Le(amount, MAX_AMOUNT) THEN "AmountTooLarge"
    ELSE IF ~(debtor_info <= 200) THEN "DebtorInfoTooLong"
    ELSE IF ~(debtor_info >= 10) THEN "DebtorInfoTooShort"
    ELSE "Ok"

\* The invoice account is created (init) before the handler runs: an
\* invoice_id already in use fails there.
create_invoice_result(invoice_id, amount, due_date, debtor_info) ==
    IF invoice_id \in DOMAIN invoices THEN "AccountAlreadyInUse"
    ELSE IF ~Lt(Zero, amount) THEN "InvalidAmount"
    ELSE IF ~Le(amount, MAX_AMOUNT) THEN "AmountTooLarge"
    ELSE IF ~(due_date > now) THEN "InvalidDueDate"
    ELSE IF ~(due_date <= now + MAX_TERM) THEN "DueDateTooFar"
    ELSE IF ~(debtor_info <= 200) THEN "DebtorInfoTooLong"
    ELSE IF ~(debtor_info >= 10) THEN "DebtorInfoTooShort"
    ELSE "Ok"

\* Mutation of create_invoice: the invoice is stored, total_invoices is not
\* advanced.
create_invoice_M(invoice_id, amount, due_date, debtor_info, business_owner) ==
    IF create_invoice_result(invoice_id, amount, due_date, debtor_info) # "Ok"
        THEN UNCHANGED vars
    ELSE /\ invoices' = invoices @@ (invoice_id :>
                NewInvoice(invoice_id, amount, due_date, debtor_info,
                           business_owner, now))
         /\ UNCHANGED <<now, token, global_state>>

create_invoice(invoice_id, amount, due_date, debtor_info, business_owner) ==
    IF create_invoice_result(invoice_id, amount, due_date, debtor_info) # "Ok"
        THEN UNCHANGED vars
    ELSE /\ invoices' = invoices @@ (invoice_id :>
                NewInvoice(invoice_id, amount, due_date, debtor_info,
                           business_owner, now))
         /\ global_state' = [global_state EXCEPT
                !.total_invoices = Add(@, Num(1))]
         /\ UNCHANGED <<now, token>>

(***************************************************************************)
(* fund_invoice                                                            *)
(***************************************************************************)
\* expected_return = amount + (amount * risk_score as u64) / 500
ExpectedReturn(amount, risk_score) ==
    Add(amount, Div(Mul(amount, risk_score), 500))

\* Mutation of FundedInvoice: funded_amount is left at zero.
FundedInvoice_M(invoice, investor, amount, t) ==
    [invoice EXCEPT
        !.status = "Funded",
        !.investor = investor,
        !.funding_date = Some(t),
        !.expected_return = Some(ExpectedReturn(amount, invoice.risk_score))]

FundedInvoice(invoice, investor, amount, t) ==
    [invoice EXCEPT
        !.status = "Funded",
        !.funded_amount = amount,
        !.investor = investor,
        !.funding_date = Some(t),
        !.expected_return = Some(ExpectedReturn(amount, invoice.risk_score))]

FundTransfers(bal, invoice, investor, amount) ==
    Transfer(Transfer(bal, investor, invoice.business_owner, amount),
             investor, InsurancePool, invoice.insurance_premium)

\* Mutation of FundGlobalState: the premium is not added to the pool counter.
FundGlobalState_M(gs, invoice, amount) ==
    [gs EXCEPT !.total_funded = Add(@, amount)]

FundGlobalState(gs, invoice, amount) ==
    [gs EXCEPT
        !.total_funded = Add(@, amount),
        !.insurance_pool_balance = Add(@, invoice.insurance_premium)]

\* Mutation of AvailableForFunding: a Funded invoice can be funded again.
AvailableForFunding_M(invoice) ==
    invoice.status \in {"PendingFunding", "Funded"}

AvailableForFunding(invoice) == invoice.status = "PendingFunding"

\* cpi_error: 0 when both token transfers succeed, 1 or 2 when the token
\* program fails the first or the second one.
fund_invoice_result(invoice_id, investor, amount, cpi_error) ==
    IF invoice_id \notin DOMAIN invoices THEN "AccountNotInitialized"
    ELSE LET invoice == invoices[invoice_id] IN
    IF ~AvailableForFunding(invoice) THEN "InvoiceNotAvailable"
    ELSE IF amount # invoice.amount THEN "InvalidFundingAmount"
    ELSE IF ~Le(Add(amount, invoice.insurance_premium), token[investor])
        THEN "InsufficientFunds"
    ELSE IF cpi_error # 0 THEN "TokenProgramError"
    ELSE "Ok"

\* Mutation of fund_invoice: when the premium transfer fails, the principal
\* transfer that preceded it stays.
fund_invoice_M(invoice_id, investor, amount, cpi_error) ==
    LET r == fund_invoice_result(invoice_id, investor, amount, cpi_error) IN
    IF r = "TokenProgramError" /\ cpi_error = 2
        THEN /\ token' = Transfer(token, investor,
                                  invoices[invoice_id].business_owner, amount)
             /\ UNCHANGED <<now, global_state, invoices>>
    ELSE IF r # "Ok" THEN UNCHANGED vars
    ELSE LET invoice == invoices[invoice_id] IN
         /\ token' = FundTransfers(token, invoice, investor, amount)
         /\ invoices' = [invoices EXCEPT
                ![invoice_id] = FundedInvoice(invoice, investor, amount, now)]
         /\ global_state' = FundGlobalState(global_state, invoice, amount)
         /\ UNCHANGED now

\* cpi_error: 0 when both token::transfer calls succeed, 1 when the principal
\* transfer fails, 2 when the premium transfer fails after it.  A failed
\* call returns the error from the handler and the runtime discards every
\* change the instruction made.
fund_invoice(invoice_id, investor, amount, cpi_error) ==
    IF fund_invoice_result(invoice_id, investor, amount, cpi_error) # "Ok"
        THEN UNCHANGED vars
    ELSE LET invoice == invoices[invoice_id] IN
         /\ token' = FundTransfers(token, invoice, investor, amount)
         /\ invoices' = [invoices EXCEPT
                ![invoice_id] = FundedInvoice(invoice, investor, amount, now)]
         /\ global_state' = FundGlobalState(global_state, invoice, amount)
         /\ UNCHANGED now

\* fund_invoice as a function of the accounts it is given: st holds the
\* invoice records, the token balances and the global state.  FundAccepted
\* is the conjunction of its require! checks for amount = invoice.amount.
FundAccepted(st, invoice_id, investor) ==
    LET invoice == st.invoices[invoice_id] IN
    /\ invoice.status = "PendingFunding"
    /\ Le(Add(invoice.amount, invoice.insurance_premium), st.token[investor])

\* Mutation of FundApplied: the counters are overwritten, not advanced.
FundApplied_M(st, invoice_id, investor) ==
    LET invoice == st.invoices[invoice_id] IN
    [invoices |-> [st.invoices EXCEPT ![invoice_id] =
                      FundedInvoice(invoice, investor, invoice.amount, now)],
     token |-> FundTransfers(st.token, invoice, investor, invoice.amount),
     global_state |-> [st.global_state EXCEPT
                          !.total_funded = invoice.amount,
                          !.insurance_pool_balance = invoice.insurance_premium]]

FundApplied(st, invoice_id, investor) ==
    LET invoice == st.invoices[invoice_id] IN
    [invoices |-> [st.invoices EXCEPT ![invoice_id] =
                      FundedInvoice(invoice, investor, invoice.amount, now)],
     token |-> FundTransfers(st.token, invoice, investor, invoice.amount),
     global_state |-> FundGlobalState(st.global_state, invoice, invoice.amount)]

(***************************************************************************)
(* repay_invoice                                                           *)
(***************************************************************************)
\* current_time <= invoice.due_date + grace_period
WithinGracePeriod(invoice, current_time) ==
    current_time <= invoice.due_date + GRACE_PERIOD

IsLate(invoice, current_time) == current_time > invoice.due_date

DaysOverdue(invoice, current_time) ==
    IF IsLate(invoice, current_time)
        THEN (current_time - invoice.due_date) \div DAY
        ELSE 0

\* late_fee = (funded_amount * days_overdue as u64 * 5) / 10000 when late.
LateFee(invoice, current_time) ==
    IF IsLate(invoice, current_time)
        THEN Div(Mul(Mul(invoice.funded_amount,
                         DaysOverdue(invoice, current_time)), 5), 10000)
        ELSE Zero

\* The exact value of repayment_amount + late_fee.
TotalRepaymentSum(invoice, repayment_amount, current_time) ==
    Add(repayment_amount, LateFee(invoice, current_time))

\* total_repayment: what the u64 holds of that sum.
TotalRepayment(invoice, repayment_amount, current_time) ==
    Wrap(TotalRepaymentSum(invoice, repayment_amount, current_time))

\* Mutation of RepaidInvoice: the repayment is recorded, the status is not.
RepaidInvoice_M(invoice, total_repayment, late_fee, current_time) ==
    [invoice EXCEPT
        !.repayment_date = Some(current_time),
        !.final_repayment_amount = Some(total_repayment),
        !.late_fee = Some(late_fee)]

RepaidInvoice(invoice, total_repayment, late_fee, current_time) ==
    [invoice EXCEPT
        !.status = "Repaid",
        !.repayment_date = Some(current_time),
        !.final_repayment_amount = Some(total_repayment),
        !.late_fee = Some(late_fee)]

RepayTransfer(bal, invoice, business_owner, total_repayment) ==
    Transfer(bal, business_owner, invoice.investor, total_repayment)

\* require!(invoice.status == InvoiceStatus::Funded, ...) of repay_invoice
Repayable(invoice) == invoice.status = "Funded"

\* business_owner is whoever signs: the accounts bind business_token_account
\* to the signer and investor_token_account to invoice.investor.
\* overflow_checks: whether the build panics on u64 overflow or wraps.
repay_invoice_result(invoice_id, business_owner, repayment_amount, overflow_checks, cpi_error) ==
    IF invoice_id \notin DOMAIN invoices THEN "AccountNotInitialized"
    ELSE LET invoice == invoices[invoice_id] IN
    IF ~Repayable(invoice) THEN "InvoiceNotFunded"
    ELSE IF ~Le(invoice.funded_amount, repayment_amount)
        THEN "InsufficientRepayment"
    ELSE IF ~WithinGracePeriod(invoice, now) THEN "RepaymentPeriodExpired"
    ELSE IF Overflows(TotalRepaymentSum(invoice, repayment_amount, now))
            /\ overflow_checks
        THEN "Panic"
    ELSE IF ~Le(TotalRepayment(invoice, repayment_amount, now),
                token[business_owner])
        THEN "InsufficientRepaymentFunds"
    ELSE IF cpi_error # 0 THEN "TokenProgramError"
    ELSE "Ok"

repay_invoice(invoice_id, business_owner, repayment_amount, overflow_checks, cpi_error) ==
    IF repay_invoice_result(invoice_id, business_owner, repayment_amount,
                            overflow_checks, cpi_error) # "Ok"
        THEN UNCHANGED vars
    ELSE LET invoice == invoices[invoice_id]
             total_repayment == TotalRepayment(invoice, repayment_amount, now)
         IN
         /\ token' = RepayTransfer(token, invoice, business_owner,
                                   total_repayment)
         /\ invoices' = [invoices EXCEPT
                ![invoice_id] = RepaidInvoice(invoice, total_repayment,
                                    LateFee(invoice, now), now)]
         /\ UNCHANGED <<now, global_state>>

(***************************************************************************)
(* claim_insurance                                                         *)
(***************************************************************************)
\* Mutation of ClaimEligible: a claim is accepted at the last repayable instant.
ClaimEligible_M(invoice, current_time) ==
    current_time >= invoice.due_date + GRACE_PERIOD

\* Clock::get()?.unix_timestamp > invoice.due_date + (30 * 86400)
ClaimEligible(invoice, current_time) ==
    current_time > invoice.due_date + GRACE_PERIOD

\* Mutation of CoveragePercentage: every risk tier is covered at 90%.
CoveragePercentage_M(risk_score) == 90

\* match invoice.risk_score { 0..=20 => 90, 21..=35 => 80, 36..=50 => 70,
\* _ => 60 }
CoveragePercentage(risk_score) ==
    IF risk_score <= 20 THEN 90
    ELSE IF risk_score <= 35 THEN 80
    ELSE IF risk_score <= 50 THEN 70
    ELSE 60

InsurancePayout(invoice) ==
    Div(Mul(invoice.funded_amount, CoveragePercentage(invoice.risk_score)), 100)

\* Mutation of PoolCovers: the pool is never found short.
PoolCovers_M(bal, insurance_payout) == TRUE

\* ctx.accounts.insurance_pool_account.amount >= insurance_payout
PoolCovers(bal, insurance_payout) == Le(insurance_payout, bal[InsurancePool])

\* Mutation of IsRecordedInvestor: any signer passes.
IsRecordedInvestor_M(invoice, investor) == TRUE

IsRecordedInvestor(invoice, investor) == investor = invoice.investor

\* Mutation of Claimable: a Repaid invoice can still be claimed.
Claimable_M(invoice) == invoice.status \in {"Funded", "Repaid"}

\* require!(invoice.status == InvoiceStatus::Funded, ...) of claim_insurance
Claimable(invoice) == invoice.status = "Funded"

DefaultedInvoice(invoice, insurance_payout, current_time) ==
    [invoice EXCEPT
        !.status = "Defaulted",
        !.insurance_claim_date = Some(current_time),
        !.insurance_payout = Some(insurance_payout)]

ClaimTransfer(bal, investor, insurance_payout) ==
    Transfer(bal, InsurancePool, investor, insurance_payout)

\* global_state.insurance_pool_balance -= insurance_payout, wrapping when the
\* counter is below the payout and the build does not check.
ClaimGlobalState(gs, insurance_payout) ==
    [gs EXCEPT !.insurance_pool_balance =
        IF Lt(@, insurance_payout)
            THEN Sub(Add(@, TWO_64), insurance_payout)
            ELSE Sub(@, insurance_payout)]

claim_insurance_result(invoice_id, investor, overflow_checks, cpi_error) ==
    IF invoice_id \notin DOMAIN invoices THEN "AccountNotInitialized"
    ELSE LET invoice == invoices[invoice_id] IN
    IF ~Claimable(invoice) THEN "InvoiceNotFunded"
    ELSE IF ~IsRecordedInvestor(invoice, investor)
        THEN "UnauthorizedInsuranceClaim"
    ELSE IF ~ClaimEligible(invoice, now) THEN "NotEligibleForClaim"
    ELSE IF ~PoolCovers(token, InsurancePayout(invoice))
        THEN "InsufficientInsurancePool"
    ELSE IF cpi_error # 0 THEN "TokenProgramError"
    ELSE IF Lt(global_state.insurance_pool_balance, InsurancePayout(invoice))
            /\ overflow_checks
        THEN "Panic"
    ELSE "Ok"

claim_insurance(invoice_id, investor, overflow_checks, cpi_error) ==
    IF claim_insurance_result(invoice_id, investor, overflow_checks,
                              cpi_error) # "Ok"
        THEN UNCHANGED vars
    ELSE LET invoice == invoices[invoice_id]
             insurance_payout == InsurancePayout(invoice)
         IN
         /\ token' = ClaimTransfer(token, investor, insurance_payout)
         /\ invoices' = [invoices EXCEPT
                ![invoice_id] = DefaultedInvoice(invoice, insurance_payout, now)]
         /\ global_state' = ClaimGlobalState(global_state, insurance_payout)
         /\ UNCHANGED now

(***************************************************************************)
(* The clock and the specifications                                        *)
(***************************************************************************)
\* Time passes between instructions; the clock never goes back.
Tick(instants) ==
    /\ \E t \in instants : t > now /\ now' = t
    /\ UNCHANGED <<global_state, invoices, token>>

\* The instructions on the invoices ids, with the clock reading instants.
Ledger(ids, instants) ==
    \/ \E invoice_id \in ids, amount \in ValidAmounts,
          business_owner \in Parties :
            create_invoice(invoice_id, amount, DueDate1, 10, business_owner)
    \/ \E invoice_id \in ids, investor \in Parties,
          amount \in ValidAmounts, cpi_error \in 0..2 :
            fund_invoice(invoice_id, investor, amount, cpi_error)
    \/ \E invoice_id \in ids, business_owner \in Parties,
          repayment_amount \in RepayAmounts, overflow_checks \in BOOLEAN,
          cpi_error \in 0..1 :
            repay_invoice(invoice_id, business_owner, repayment_amount,
                          overflow_checks, cpi_error)
    \/ \E invoice_id \in ids, investor \in Parties,
          overflow_checks \in BOOLEAN, cpi_error \in 0..1 :
            claim_insurance(invoice_id, investor, overflow_checks, cpi_error)
    \/ Tick(instants)

\* Two invoices, so that the premiums of one can pay the claim on the other.
Next == Ledger(InvoiceIds, Instants)

Spec == Init /\ [][Next]_vars

\* One invoice under a clock that reads every boundary of its windows.
NextClock == Ledger({1}, FineInstants)

SpecClock == Init /\ [][NextClock]_vars

\* Both invoices under a clock that steps across the end of the grace period.
NextWindow == Ledger(InvoiceIds, WindowInstants)

SpecWindow == Init /\ [][NextWindow]_vars

\* Two invoices whose amounts go down to 1 and 2, under the clock of
\* SpecWindow: alone, or with the other invoice's premium in the pool.
NextPair ==
    \/ \E invoice_id \in InvoiceIds, amount \in PairAmounts,
          business_owner \in Parties :
            create_invoice(invoice_id, amount, DueDate1, 10, business_owner)
    \/ \E invoice_id \in InvoiceIds, investor \in Parties,
          amount \in PairAmounts, cpi_error \in 0..2 :
            fund_invoice(invoice_id, investor, amount, cpi_error)
    \/ \E invoice_id \in InvoiceIds, business_owner \in Parties,
          repayment_amount \in PairAmounts, overflow_checks \in BOOLEAN,
          cpi_error \in 0..1 :
            repay_invoice(invoice_id, business_owner, repayment_amount,
                          overflow_checks, cpi_error)
    \/ \E invoice_id \in InvoiceIds, investor \in Parties,
          overflow_checks \in BOOLEAN, cpi_error \in 0..1 :
            claim_insurance(invoice_id, investor, overflow_checks, cpi_error)
    \/ Tick(WindowInstants)

SpecPair == Init /\ [][NextPair]_vars

\* create_invoice alone, over inputs that reach every tier of the risk
\* engine and every validation error.
NextCreate ==
    \E amount \in WideAmounts, due_date \in WideDueDates,
       debtor_info \in DebtorInfoLens, business_owner \in WideOwners :
        create_invoice(1, amount, due_date, debtor_info, business_owner)

SpecCreate == Init /\ [][NextCreate]_vars

(***************************************************************************)
(* Vocabulary of the properties                                            *)
(***************************************************************************)
\* The amounts a caller may pass to fund_invoice.
AnyFundAmounts == ValidAmounts \cup {Zero, Num(1), U64_MAX}

\* x is a value a u64 can hold.
IsU64(x) ==
    /\ \A i \in 1..4 : x[i] >= 0 /\ x[i] < Base
    /\ Le(x, U64_MAX)

RECURSIVE SumOver(_, _)
\* The sum of f over the finite set S.
SumOver(f, S) ==
    IF S = {} THEN Zero
    ELSE LET x == CHOOSE y \in S : TRUE
         IN  Add(f[x], SumOver(f, S \ {x}))

\* This step is a successful fund_invoice / repay_invoice / claim_insurance
\* on invoice id.
FundOk(id) ==
    \E investor \in Parties, amount \in AnyFundAmounts, cpi_error \in 0..2 :
        /\ fund_invoice_result(id, investor, amount, cpi_error) = "Ok"
        /\ fund_invoice(id, investor, amount, cpi_error)

RepayOk(id) ==
    \E business_owner \in Parties, repayment_amount \in RepayAmounts,
       overflow_checks \in BOOLEAN, cpi_error \in 0..1 :
        /\ repay_invoice_result(id, business_owner, repayment_amount,
                                overflow_checks, cpi_error) = "Ok"
        /\ repay_invoice(id, business_owner, repayment_amount,
                         overflow_checks, cpi_error)

ClaimOk(id) ==
    \E investor \in Parties, overflow_checks \in BOOLEAN, cpi_error \in 0..1 :
        /\ claim_insurance_result(id, investor, overflow_checks, cpi_error)
               = "Ok"
        /\ claim_insurance(id, investor, overflow_checks, cpi_error)

\* No fund_invoice, repay_invoice or claim_insurance on invoice id is accepted.
AllRejected(id) ==
    /\ \A investor \in Parties, amount \in AnyFundAmounts, cpi_error \in 0..2 :
        fund_invoice_result(id, investor, amount, cpi_error) # "Ok"
    /\ \A business_owner \in Parties, repayment_amount \in RepayAmounts,
          overflow_checks \in BOOLEAN, cpi_error \in 0..1 :
        repay_invoice_result(id, business_owner, repayment_amount,
                             overflow_checks, cpi_error) # "Ok"
    /\ \A investor \in Parties, overflow_checks \in BOOLEAN,
          cpi_error \in 0..1 :
        claim_insurance_result(id, investor, overflow_checks, cpi_error)
            # "Ok"

Terminal(invoice) == invoice.status \in {"Repaid", "Defaulted"}

(***************************************************************************)
(* C1.  An invoice's status changes only PendingFunding -> Funded by a     *)
(* successful fund_invoice, Funded -> Repaid by a successful repay_invoice *)
(* or Funded -> Defaulted by a successful claim_insurance; once Repaid or  *)
(* Defaulted, every fund_invoice, repay_invoice and claim_insurance on it  *)
(* is rejected and its record never changes again.                         *)
(***************************************************************************)
TerminalRejectsAll ==
    \A id \in DOMAIN invoices : Terminal(invoices[id]) => AllRejected(id)

LifecycleStep ==
    \A id \in DOMAIN invoices :
        /\ id \in DOMAIN invoices'
        /\ LET old == invoices[id]
               new == invoices'[id]
           IN  /\ old.status # new.status =>
                    \/ /\ old.status = "PendingFunding"
                       /\ new.status = "Funded"
                       /\ FundOk(id)
                    \/ /\ old.status = "Funded"
                       /\ new.status = "Repaid"
                       /\ RepayOk(id)
                    \/ /\ old.status = "Funded"
                       /\ new.status = "Defaulted"
                       /\ ClaimOk(id)
               /\ Terminal(old) => new = old

C1_Lifecycle == []TerminalRejectsAll /\ [][LifecycleStep]_vars

\* One invoice has been repaid and another has defaulted.
C1_Witness ==
    \E a \in DOMAIN invoices, b \in DOMAIN invoices :
        invoices[a].status = "Repaid" /\ invoices[b].status = "Defaulted"

(***************************************************************************)
(* C2.  Value is never created, destroyed or misrouted: in every reachable *)
(* state the balances of all parties and of the insurance pool account sum *)
(* to what they summed to at initialization.                               *)
(***************************************************************************)
InitialSupply == Mul(InitialBalance, Cardinality(Parties))

C2_ValueConserved == SumOver(token, Accounts) = InitialSupply

\* A late repayment with a fee and a claim with a payout have both moved
\* funds, and premiums remain in the pool.
C2_Witness ==
    /\ \E a \in DOMAIN invoices :
          /\ invoices[a].status = "Repaid"
          /\ invoices[a].late_fee # Some(Zero)
    /\ \E b \in DOMAIN invoices :
          /\ invoices[b].status = "Defaulted"
          /\ invoices[b].insurance_payout # Some(Zero)
    /\ token[InsurancePool] # Zero

(***************************************************************************)
(* C3.  Pool conservation: a successful fund_invoice raises                *)
(* insurance_pool_balance by exactly the invoice's premium, a successful   *)
(* claim_insurance lowers it by exactly the payout, and in every reachable *)
(* state insurance_pool_balance equals the pool account's balance and      *)
(* equals the premiums of all invoices ever funded minus the payouts of    *)
(* all Defaulted invoices.                                                 *)
(***************************************************************************)
EverFunded == {id \in DOMAIN invoices : invoices[id].status # "PendingFunding"}

DefaultedIds == {id \in DOMAIN invoices : invoices[id].status = "Defaulted"}

PremiumsCollected ==
    SumOver([id \in EverFunded |-> invoices[id].insurance_premium], EverFunded)

PayoutsMade ==
    SumOver([id \in DefaultedIds |-> invoices[id].insurance_payout[1]],
            DefaultedIds)

PoolMatchesLedger ==
    /\ global_state.insurance_pool_balance = token[InsurancePool]
    /\ Add(global_state.insurance_pool_balance, PayoutsMade) = PremiumsCollected

PoolSteps ==
    \A id \in DOMAIN invoices :
        LET old == invoices[id]
            new == invoices'[id]
        IN  /\ old.status = "PendingFunding" /\ new.status = "Funded" =>
                 global_state'.insurance_pool_balance =
                     Add(global_state.insurance_pool_balance,
                         old.insurance_premium)
            /\ old.status = "Funded" /\ new.status = "Defaulted" =>
                 /\ Le(new.insurance_payout[1],
                       global_state.insurance_pool_balance)
                 /\ Add(global_state'.insurance_pool_balance,
                        new.insurance_payout[1])
                        = global_state.insurance_pool_balance

C3_PoolConservation == []PoolMatchesLedger /\ [][PoolSteps]_vars

\* Every invoice has been funded and a claim has been paid out of the pool.
C3_Witness ==
    /\ EverFunded = InvoiceIds
    /\ \E id \in DefaultedIds : invoices[id].insurance_payout # Some(Zero)

(***************************************************************************)
(* C4.  The insurance pool balance never goes negative and the u64 counter *)
(* never underflows: a claim_insurance whose payout exceeds the pool       *)
(* balance is never accepted and changes nothing (the invoice stays        *)
(* Funded; balances and counters stay as they are), and when it comes from *)
(* the recorded investor after the claim delay it is rejected with         *)
(* InsufficientInsurancePool.                                              *)
(***************************************************************************)
PayoutExceedsPool(id) ==
    \/ Lt(token[InsurancePool], InsurancePayout(invoices[id]))
    \/ Lt(global_state.insurance_pool_balance, InsurancePayout(invoices[id]))

PoolNeverOverdrawn ==
    /\ IsU64(global_state.insurance_pool_balance)
    /\ IsU64(token[InsurancePool])
    /\ \A id \in DOMAIN invoices, investor \in Parties,
          overflow_checks \in BOOLEAN, cpi_error \in 0..1 :
        invoices[id].status = "Funded" /\ PayoutExceedsPool(id) =>
            LET r == claim_insurance_result(id, investor, overflow_checks,
                                            cpi_error)
            IN  /\ r # "Ok"
                /\ investor = invoices[id].investor
                   /\ now > invoices[id].due_date + 30 * 86400
                   => r = "InsufficientInsurancePool"

UnderfundedClaimChangesNothing ==
    \/ UNCHANGED vars
    \/ \A id \in DOMAIN invoices, investor \in Parties,
          overflow_checks \in BOOLEAN, cpi_error \in 0..1 :
        ~ /\ invoices[id].status = "Funded"
          /\ PayoutExceedsPool(id)
          /\ claim_insurance(id, investor, overflow_checks, cpi_error)

C4_PoolNeverNegative ==
    []PoolNeverOverdrawn /\ [][UnderfundedClaimChangesNothing]_vars

\* The recorded investor is entitled to claim, and the pool holds premiums
\* but fewer than the payout.
C4_Witness ==
    \E id \in DOMAIN invoices :
        /\ invoices[id].status = "Funded"
        /\ now > invoices[id].due_date + 30 * 86400
        /\ token[InsurancePool] # Zero
        /\ PayoutExceedsPool(id)
        /\ claim_insurance_result(id, invoices[id].investor, TRUE, 0)
               = "InsufficientInsurancePool"

(***************************************************************************)
(* C5.  Funding is guarded: once a fund_invoice on an invoice has          *)
(* succeeded, every further fund_invoice on it, by any investor with any   *)
(* amount, fails with InvoiceNotAvailable and changes nothing; total_funded*)
(* grows only in the step that funds a PendingFunding invoice, by that     *)
(* invoice's amount, and the pool is paid its premium only in that step.   *)
(***************************************************************************)
SecondFundingFails ==
    \A id \in DOMAIN invoices :
        invoices[id].status # "PendingFunding" =>
            \A investor \in Parties, amount \in AnyFundAmounts,
               cpi_error \in 0..2 :
                fund_invoice_result(id, investor, amount, cpi_error)
                    = "InvoiceNotAvailable"

FundedOnce ==
    /\ \/ UNCHANGED vars
       \/ \A id \in DOMAIN invoices, investor \in Parties,
             amount \in AnyFundAmounts, cpi_error \in 0..2 :
           ~ /\ invoices[id].status # "PendingFunding"
             /\ fund_invoice(id, investor, amount, cpi_error)
    /\ \/ global_state'.total_funded # global_state.total_funded
       \/ Lt(token[InsurancePool], token'[InsurancePool])
       => \E id \in DOMAIN invoices :
            /\ invoices[id].status = "PendingFunding"
            /\ invoices'[id].status = "Funded"
            /\ \A other \in DOMAIN invoices \ {id} :
                  invoices'[other] = invoices[other]
            /\ global_state'.total_funded =
                  Add(global_state.total_funded, invoices[id].amount)
            /\ token'[InsurancePool] =
                  Add(token[InsurancePool], invoices[id].insurance_premium)

C5_FundingGuarded == []SecondFundingFails /\ [][FundedOnce]_vars

\* An invoice is funded and another party could afford to fund it again.
C5_Witness ==
    \E id \in DOMAIN invoices, investor \in Parties :
        /\ invoices[id].status = "Funded"
        /\ investor # invoices[id].investor
        /\ Le(Add(invoices[id].amount, invoices[id].insurance_premium),
              token[investor])

(***************************************************************************)
(* C6.  In every reachable state repayment_date, final_repayment_amount    *)
(* and late_fee are set if and only if the status is Repaid, and           *)
(* insurance_claim_date and insurance_payout are set if and only if the    *)
(* status is Defaulted; no invoice is both repaid and claimed.             *)
(***************************************************************************)
C6_TerminalData ==
    \A id \in DOMAIN invoices :
        LET invoice == invoices[id]
        IN  /\ invoice.repayment_date # None <=> invoice.status = "Repaid"
            /\ invoice.final_repayment_amount # None
                   <=> invoice.status = "Repaid"
            /\ invoice.late_fee # None <=> invoice.status = "Repaid"
            /\ invoice.insurance_claim_date # None
                   <=> invoice.status = "Defaulted"
            /\ invoice.insurance_payout # None
                   <=> invoice.status = "Defaulted"

\* Both kinds of terminal data exist, each on its own invoice, the repaid
\* one settled on time.
C6_Witness ==
    \E a \in DOMAIN invoices, b \in DOMAIN invoices :
        /\ invoices[a].late_fee = Some(Zero)
        /\ invoices[a].repayment_date # None
        /\ invoices[b].insurance_claim_date # None

(***************************************************************************)
(* C7.  The repayment and claim windows partition time at due_date + 30    *)
(* days.  On a Funded invoice, whenever now > due_date + 30 days no        *)
(* repay_invoice is accepted and none changes anything, and every one that *)
(* reaches the time guard (repayment_amount >= funded_amount) fails with   *)
(* RepaymentPeriodExpired; whenever now <= due_date + 30 days, the instant *)
(* due_date + 30 days included, no claim_insurance is accepted and none    *)
(* changes anything, and every one that reaches the time guard (made by    *)
(* the recorded investor) fails with NotEligibleForClaim.  At no instant   *)
(* do both time guards pass, the clock never goes back, and once a claim   *)
(* is time-eligible the invoice is never repaid.                           *)
(***************************************************************************)
PastGrace(id) == now > invoices[id].due_date + 30 * 86400

WindowsPartition ==
    \A id \in DOMAIN invoices :
        invoices[id].status = "Funded" =>
            /\ PastGrace(id) =>
                 \A business_owner \in Parties,
                    repayment_amount \in RepayAmounts \cup {Zero},
                    overflow_checks \in BOOLEAN, cpi_error \in 0..1 :
                     LET r == repay_invoice_result(id, business_owner,
                                  repayment_amount, overflow_checks, cpi_error)
                     IN  /\ r # "Ok"
                         /\ Le(invoices[id].funded_amount, repayment_amount)
                            => r = "RepaymentPeriodExpired"
            /\ ~PastGrace(id) =>
                 \A investor \in Parties, overflow_checks \in BOOLEAN,
                    cpi_error \in 0..1 :
                     LET r == claim_insurance_result(id, investor,
                                  overflow_checks, cpi_error)
                     IN  /\ r # "Ok"
                         /\ investor = invoices[id].investor
                            => r = "NotEligibleForClaim"
            /\ ~ /\ WithinGracePeriod(invoices[id], now)
                 /\ ClaimEligible(invoices[id], now)

WindowSteps ==
    /\ now' >= now
    /\ \A id \in DOMAIN invoices :
        invoices[id].status = "Funded" =>
            /\ invoices'[id].due_date = invoices[id].due_date
            /\ PastGrace(id) =>
                 /\ invoices'[id].status # "Repaid"
                 /\ \/ UNCHANGED vars
                    \/ \A business_owner \in Parties,
                          repayment_amount \in RepayAmounts,
                          overflow_checks \in BOOLEAN, cpi_error \in 0..1 :
                        ~repay_invoice(id, business_owner, repayment_amount,
                                       overflow_checks, cpi_error)
            /\ ~PastGrace(id) =>
                 /\ invoices'[id].status # "Defaulted"
                 /\ \/ UNCHANGED vars
                    \/ \A investor \in Parties, overflow_checks \in BOOLEAN,
                          cpi_error \in 0..1 :
                        ~claim_insurance(id, investor, overflow_checks,
                                         cpi_error)

C7_WindowsPartition == []WindowsPartition /\ [][WindowSteps]_vars

\* At exactly due_date + 30 days a repayment is still accepted and the
\* investor's claim is turned away, although the pool could pay it.
C7_Witness ==
    \E id \in DOMAIN invoices :
        /\ invoices[id].status = "Funded"
        /\ now = invoices[id].due_date + 30 * 86400
        /\ repay_invoice_result(id, invoices[id].business_owner,
                                invoices[id].funded_amount, TRUE, 0) = "Ok"
        /\ claim_insurance_result(id, invoices[id].investor, TRUE, 0)
               = "NotEligibleForClaim"
        /\ Le(InsurancePayout(invoices[id]), token[InsurancePool])

(***************************************************************************)
(* C8.  Only the recorded investor can claim: claim_insurance on a Funded  *)
(* invoice by anyone else is rejected with UnauthorizedInsuranceClaim at   *)
(* every time and for every pool balance and changes nothing; a successful *)
(* claim moves the payout from the pool to invoice.investor and to nobody  *)
(* else.                                                                   *)
(***************************************************************************)
OthersUnauthorized ==
    \A id \in DOMAIN invoices, claimant \in Parties,
       overflow_checks \in BOOLEAN, cpi_error \in 0..1 :
        invoices[id].status = "Funded" /\ claimant # invoices[id].investor =>
            claim_insurance_result(id, claimant, overflow_checks, cpi_error)
                = "UnauthorizedInsuranceClaim"

ClaimPaysInvestorOnly ==
    \A id \in DOMAIN invoices :
        /\ \/ UNCHANGED vars
           \/ \A claimant \in Parties, overflow_checks \in BOOLEAN,
                 cpi_error \in 0..1 :
               ~ /\ invoices[id].status = "Funded"
                 /\ claimant # invoices[id].investor
                 /\ claim_insurance(id, claimant, overflow_checks, cpi_error)
        /\ invoices[id].status = "Funded"
           /\ invoices'[id].status = "Defaulted"
           => LET payout == invoices'[id].insurance_payout[1]
                  investor == invoices[id].investor
              IN  /\ token'[InsurancePool] = Sub(token[InsurancePool], payout)
                  /\ token'[investor] = Add(token[investor], payout)
                  /\ \A a \in Accounts \ {InsurancePool, investor} :
                        token'[a] = token[a]

C8_OnlyInvestorClaims == []OthersUnauthorized /\ [][ClaimPaysInvestorOnly]_vars

\* A claim by the recorded investor would be paid, and there is another
\* party to try it.
C8_Witness ==
    \E id \in DOMAIN invoices, claimant \in Parties :
        /\ invoices[id].status = "Funded"
        /\ claimant # invoices[id].investor
        /\ claim_insurance_result(id, invoices[id].investor, TRUE, 0) = "Ok"
        /\ InsurancePayout(invoices[id]) # Zero

(***************************************************************************)
(* C9.  Every invoice create_invoice has stored has 10 <= risk_score <= 50 *)
(* and insurance_premium = floor(amount * risk_score / 1000), and the sum  *)
(* the u8 accumulator holds before the cap never exceeds 255.              *)
(***************************************************************************)
C9_RiskAndPremium ==
    \A id \in DOMAIN invoices :
        LET invoice == invoices[id]
            product == Mul(invoice.amount, invoice.risk_score)
            premium == invoice.insurance_premium
        IN  /\ invoice.risk_score >= 10
            /\ invoice.risk_score <= 50
            /\ Le(Mul(premium, 1000), product)
            /\ Lt(product, Mul(Add(premium, Num(1)), 1000))
            /\ RiskSum(invoice.amount, invoice.due_date,
                       invoice.business_owner, invoice.created_at)
                   <= 255

\* An invoice whose score the cap has cut down and whose premium the
\* division has rounded down.
C9_Witness ==
    \E id \in DOMAIN invoices :
        /\ RiskSum(invoices[id].amount, invoices[id].due_date,
                   invoices[id].business_owner,
                   invoices[id].created_at) > 50
        /\ Mul(invoices[id].insurance_premium, 1000)
               # Mul(invoices[id].amount, invoices[id].risk_score)

(***************************************************************************)
(* C10.  Late fee on a successful repay_invoice: if now <= due_date then   *)
(* late_fee = 0 and the amount transferred and stored as                   *)
(* final_repayment_amount equals repayment_amount; if due_date < now <=    *)
(* due_date + 30 days then late_fee = floor(funded_amount * days_overdue   *)
(* * 5 / 10000) with days_overdue = floor((now - due_date) / 86400), and   *)
(* the amount transferred and stored equals repayment_amount + late_fee.   *)
(***************************************************************************)
RepaymentAsStated(id, business_owner, repayment_amount) ==
    LET invoice == invoices[id]
        days_overdue == (now - invoice.due_date) \div 86400
        late_fee ==
            IF now <= invoice.due_date THEN Zero
            ELSE Div(Mul(Mul(invoice.funded_amount, days_overdue), 5), 10000)
        total == Add(repayment_amount, late_fee)
    IN  /\ invoices'[id].late_fee = Some(late_fee)
        /\ invoices'[id].final_repayment_amount = Some(total)
        /\ business_owner # invoice.investor =>
              /\ Add(token'[business_owner], total) = token[business_owner]
              /\ token'[invoice.investor] = Add(token[invoice.investor], total)

LateFeeStep ==
    \A id \in DOMAIN invoices, business_owner \in Parties,
       repayment_amount \in RepayAmounts, overflow_checks \in BOOLEAN :
        /\ repay_invoice_result(id, business_owner, repayment_amount,
                                overflow_checks, 0) = "Ok"
        /\ repay_invoice(id, business_owner, repayment_amount,
                         overflow_checks, 0)
        => RepaymentAsStated(id, business_owner, repayment_amount)

C10_LateFee == [][LateFeeStep]_vars

(***************************************************************************)
(* C11.  On a successful claim_insurance the payout transferred to the     *)
(* investor and stored as insurance_payout equals                          *)
(* floor(funded_amount * coverage / 100), where coverage is 90 for         *)
(* risk_score in [0,20], 80 for [21,35], 70 for [36,50] and 60 otherwise;  *)
(* risk_score 15 and funded_amount 1,000,000 give 900,000.                 *)
(***************************************************************************)
StatedCoverage(risk_score) ==
    CASE risk_score \in 0..20 -> 90
      [] risk_score \in 21..35 -> 80
      [] risk_score \in 36..50 -> 70
      [] OTHER -> 60

\* payout = floor(funded_amount * StatedCoverage(risk_score) / 100)
IsStatedPayout(payout, funded_amount, risk_score) ==
    LET product == Mul(funded_amount, StatedCoverage(risk_score))
    IN  /\ Le(Mul(payout, 100), product)
        /\ Lt(product, Mul(Add(payout, Num(1)), 100))

\* The payout the program computes for every risk_score a u8 can hold.
PayoutTiers ==
    /\ \A risk_score \in 0..255, funded_amount \in ValidAmounts \cup {MAX_AMOUNT} :
          IsStatedPayout(InsurancePayout([funded_amount |-> funded_amount,
                                          risk_score |-> risk_score]),
                         funded_amount, risk_score)
    /\ InsurancePayout([funded_amount |-> Num(1000000), risk_score |-> 15])
           = Num(900000)

PayoutStep ==
    \A id \in DOMAIN invoices :
        invoices[id].status = "Funded" /\ invoices'[id].status = "Defaulted" =>
            LET invoice == invoices[id]
                payout == invoices'[id].insurance_payout[1]
            IN  /\ IsStatedPayout(payout, invoice.funded_amount,
                                  invoice.risk_score)
                /\ token'[invoice.investor] = Add(token[invoice.investor], payout)

C11_PayoutTiers == []PayoutTiers /\ [][PayoutStep]_vars

\* A claim has been paid at a coverage below the top tier.
C11_Witness ==
    \E id \in DOMAIN invoices :
        /\ invoices[id].status = "Defaulted"
        /\ invoices[id].risk_score > 20
        /\ invoices[id].insurance_payout # Some(Zero)
        /\ invoices[id].insurance_payout # Some(invoices[id].funded_amount)

(***************************************************************************)
(* C12.  No u64 addition or multiplication on amounts silently wraps       *)
(* modulo 2^64: a repay_invoice whose repayment_amount + late_fee exceeds  *)
(* 2^64 - 1 aborts with no transfer and no state change, and every Repaid  *)
(* invoice has final_repayment_amount >= funded_amount.                    *)
(***************************************************************************)
RepaidCoversFunded ==
    \A id \in DOMAIN invoices :
        invoices[id].status = "Repaid" =>
            Le(invoices[id].funded_amount,
               invoices[id].final_repayment_amount[1])

OverflowingRepayAborts ==
    \/ UNCHANGED vars
    \/ \A id \in DOMAIN invoices, business_owner \in Parties,
          repayment_amount \in RepayAmounts, overflow_checks \in BOOLEAN,
          cpi_error \in 0..1 :
        ~ /\ invoices[id].status = "Funded"
          /\ Lt(U64_MAX, Add(repayment_amount,
                             Div(Mul(Mul(invoices[id].funded_amount,
                                         IF now > invoices[id].due_date
                                             THEN (now - invoices[id].due_date)
                                                      \div 86400
                                             ELSE 0), 5), 10000)))
          /\ repay_invoice(id, business_owner, repayment_amount,
                           overflow_checks, cpi_error)

C12_NoSilentWrap == []RepaidCoversFunded /\ [][OverflowingRepayAborts]_vars

(***************************************************************************)
(* C13.  create_invoice checks all preconditions before any mutation and   *)
(* reports the first failing one.  A rejected creation creates or alters   *)
(* no invoice record and leaves total_invoices unchanged, and a duplicate  *)
(* invoice_id never overwrites the existing invoice.  As stated, the order *)
(* is amount > 0, amount <= 10_000_000_000, due_date > now, due_date <=    *)
(* now + 365 days, debtor_info length within 10..200, and last that        *)
(* invoice_id is not in use (C13_AsStated); as the program does it, the    *)
(* invoice_id in use is found first, when the invoice account is created   *)
(* ahead of the handler, and the others follow in the stated order         *)
(* (C13_CreateChecks).                                                     *)
(***************************************************************************)
\* The first failing precondition in the stated order, the conflict on the
\* invoice_id aside.
FirstFailingInput(amount, due_date, debtor_info) ==
    IF amount = Zero THEN "InvalidAmount"
    ELSE IF Lt(Mul(Num(1000000), 10000), amount) THEN "AmountTooLarge"
    ELSE IF due_date <= now THEN "InvalidDueDate"
    ELSE IF due_date > now + 365 * 86400 THEN "DueDateTooFar"
    ELSE IF debtor_info > 200 THEN "DebtorInfoTooLong"
    ELSE IF debtor_info < 10 THEN "DebtorInfoTooShort"
    ELSE "Ok"

\* Every create_invoice request tried, a second invoice_id included.
CreateRequests ==
    {<<invoice_id, amount, due_date, debtor_info>> :
        invoice_id \in {1, 2}, amount \in WideAmounts,
        due_date \in WideDueDates, debtor_info \in DebtorInfoLens \cup {200}}

\* The invoice_id in use is reported ahead of every other failure.
ConflictReportedFirst ==
    \A req \in CreateRequests :
        create_invoice_result(req[1], req[2], req[3], req[4]) =
            IF req[1] \in DOMAIN invoices THEN "AccountAlreadyInUse"
            ELSE FirstFailingInput(req[2], req[3], req[4])

\* The invoice_id in use is reported only when nothing else fails.
ConflictReportedLast ==
    \A req \in CreateRequests :
        create_invoice_result(req[1], req[2], req[3], req[4]) =
            IF FirstFailingInput(req[2], req[3], req[4]) # "Ok"
                THEN FirstFailingInput(req[2], req[3], req[4])
            ELSE IF req[1] \in DOMAIN invoices THEN "AccountAlreadyInUse"
            ELSE "Ok"

RejectedCreateChangesNothing ==
    /\ \A id \in DOMAIN invoices :
          id \in DOMAIN invoices' /\ invoices'[id] = invoices[id]
    /\ \/ UNCHANGED vars
       \/ /\ \E id \in DOMAIN invoices' : id \notin DOMAIN invoices
          /\ \A req \in CreateRequests, business_owner \in WideOwners :
               create_invoice(req[1], req[2], req[3], req[4], business_owner)
               => /\ FirstFailingInput(req[2], req[3], req[4]) = "Ok"
                  /\ req[1] \notin DOMAIN invoices
                  /\ global_state'.total_invoices =
                        Add(global_state.total_invoices, Num(1))

C13_CreateChecks ==
    []ConflictReportedFirst /\ [][RejectedCreateChangesNothing]_vars

C13_AsStated ==
    []ConflictReportedLast /\ [][RejectedCreateChangesNothing]_vars

\* The invoice exists and a request repeats its invoice_id with an amount of
\* zero: two preconditions fail at once.
C13_Witness ==
    /\ 1 \in DOMAIN invoices
    /\ create_invoice_result(1, Zero, StartTime + DAY, 10)
           = "AccountAlreadyInUse"
    /\ FirstFailingInput(Zero, StartTime + DAY, 10) = "InvalidAmount"

(***************************************************************************)
(* C14.  fund_invoice either fully commits or has no effect: if the        *)
(* principal transfer fails, or the premium transfer fails after the       *)
(* principal transfer has succeeded, the call is not accepted and the      *)
(* invoice, total_funded, insurance_pool_balance and every balance are as  *)
(* before; an invoice leaves PendingFunding only in a step that has made   *)
(* both transfers and both counter updates.                                *)
(***************************************************************************)
FailedTransferFailsFunding ==
    \A id \in DOMAIN invoices, investor \in Parties,
       amount \in AnyFundAmounts, cpi_error \in 1..2 :
        fund_invoice_result(id, investor, amount, cpi_error) # "Ok"

FundAllOrNothing ==
    /\ \/ UNCHANGED vars
       \/ \A id \in DOMAIN invoices, investor \in Parties,
             amount \in AnyFundAmounts, cpi_error \in 1..2 :
            ~fund_invoice(id, investor, amount, cpi_error)
    /\ \A id \in DOMAIN invoices :
        LET old == invoices[id]
            new == invoices'[id]
        IN  old.status = "PendingFunding" /\ new # old =>
              /\ new.status = "Funded"
              /\ new.funded_amount = old.amount
              /\ global_state'.total_funded =
                    Add(global_state.total_funded, old.amount)
              /\ global_state'.insurance_pool_balance =
                    Add(global_state.insurance_pool_balance,
                        old.insurance_premium)
              /\ token'[InsurancePool] =
                    Add(token[InsurancePool], old.insurance_premium)
              /\ IF new.investor = old.business_owner
                    THEN Add(token'[new.investor], old.insurance_premium)
                             = token[new.investor]
                    ELSE /\ token'[old.business_owner] =
                               Add(token[old.business_owner], old.amount)
                         /\ Add(token'[new.investor],
                                Add(old.amount, old.insurance_premium))
                               = token[new.investor]
    /\ \/ \E id \in DOMAIN invoices :
            invoices[id].status = "PendingFunding"
            /\ invoices'[id].status = "Funded"
       \/ /\ global_state'.total_funded = global_state.total_funded
          /\ ~Lt(token[InsurancePool], token'[InsurancePool])

C14_FundAtomic == []FailedTransferFailsFunding /\ [][FundAllOrNothing]_vars

\* An investor passes every check of fund_invoice on a PendingFunding
\* invoice of somebody else, and either transfer may fail.
C14_Witness ==
    \E id \in DOMAIN invoices, investor \in Parties :
        /\ invoices[id].status = "PendingFunding"
        /\ investor # invoices[id].business_owner
        /\ fund_invoice_result(id, investor, invoices[id].amount, 0) = "Ok"
        /\ fund_invoice_result(id, investor, invoices[id].amount, 1)
               = "TokenProgramError"
        /\ fund_invoice_result(id, investor, invoices[id].amount, 2)
               = "TokenProgramError"

(***************************************************************************)
(* C15.  A successful repay_invoice debits total_repayment from the        *)
(* invoice's recorded business_owner and credits it to the invoice's       *)
(* recorded investor and changes no other balance; a repay_invoice         *)
(* submitted by a signer other than invoice.business_owner is not accepted *)
(* and moves nobody's funds.                                               *)
(***************************************************************************)
OnlyOwnerRepays ==
    \A id \in DOMAIN invoices, signer \in Parties,
       repayment_amount \in RepayAmounts, overflow_checks \in BOOLEAN,
       cpi_error \in 0..1 :
        signer # invoices[id].business_owner =>
            repay_invoice_result(id, signer, repayment_amount,
                                 overflow_checks, cpi_error) # "Ok"

RepaymentFromOwnerToInvestor ==
    \A id \in DOMAIN invoices :
        invoices[id].status = "Funded" /\ invoices'[id].status = "Repaid" =>
            LET owner == invoices[id].business_owner
                investor == invoices[id].investor
                total == invoices'[id].final_repayment_amount[1]
            IN  /\ owner # investor =>
                      /\ Add(token'[owner], total) = token[owner]
                      /\ token'[investor] = Add(token[investor], total)
                /\ \A a \in Accounts \ {owner, investor} : token'[a] = token[a]

C15_RepayDebitsOwner ==
    []OnlyOwnerRepays /\ [][RepaymentFromOwnerToInvestor]_vars

(***************************************************************************)
(* C16.  fund_invoice on a PendingFunding invoice whose funding window has *)
(* closed (now is past the invoice's due_date) is rejected with no         *)
(* transfer and no state change, so every Funded invoice has               *)
(* funding_date <= due_date and no invoice is funded at a time when an     *)
(* insurance claim on it is already time-eligible.                         *)
(***************************************************************************)
FundedWithinWindow ==
    \A id \in DOMAIN invoices :
        /\ invoices[id].status = "PendingFunding" /\ now > invoices[id].due_date
           => \A investor \in Parties, amount \in AnyFundAmounts :
                 fund_invoice_result(id, investor, amount, 0) # "Ok"
        /\ invoices[id].funding_date # None
           => invoices[id].funding_date[1] <= invoices[id].due_date

NoFundingOnceClaimable ==
    \A id \in DOMAIN invoices :
        /\ invoices[id].status = "PendingFunding"
        /\ now > invoices[id].due_date + 30 * 86400
        => invoices'[id] = invoices[id]

C16_FundingWindow == []FundedWithinWindow /\ [][NoFundingOnceClaimable]_vars

(***************************************************************************)
(* C17.  The registry counters track the ledger exactly: in every          *)
(* reachable state total_invoices equals the number of invoice records     *)
(* created and total_funded equals the sum of amount over all invoices     *)
(* whose status is Funded, Repaid or Defaulted; neither counter ever       *)
(* decreases, and repay_invoice and claim_insurance leave both unchanged.  *)
(***************************************************************************)
CountersMatchLedger ==
    /\ global_state.total_invoices = Num(Cardinality(DOMAIN invoices))
    /\ global_state.total_funded =
          SumOver([id \in EverFunded |-> invoices[id].amount], EverFunded)

CountersStep ==
    /\ Le(global_state.total_invoices, global_state'.total_invoices)
    /\ Le(global_state.total_funded, global_state'.total_funded)
    /\ \/ UNCHANGED <<global_state.total_invoices, global_state.total_funded>>
       \/ \A id \in DOMAIN invoices :
            /\ \A business_owner \in Parties,
                  repayment_amount \in RepayAmounts,
                  overflow_checks \in BOOLEAN, cpi_error \in 0..1 :
                 ~repay_invoice(id, business_owner, repayment_amount,
                                overflow_checks, cpi_error)
            /\ \A investor \in Parties, overflow_checks \in BOOLEAN,
                  cpi_error \in 0..1 :
                 ~claim_insurance(id, investor, overflow_checks, cpi_error)

C17_Counters == []CountersMatchLedger /\ [][CountersStep]_vars

\* Two invoices have been created; one is still unfunded and the other has
\* been funded and repaid.
C17_Witness ==
    /\ global_state.total_invoices = Num(2)
    /\ \E a \in DOMAIN invoices, b \in DOMAIN invoices :
          /\ invoices[a].status = "PendingFunding"
          /\ invoices[b].status = "Repaid"
          /\ global_state.total_funded = invoices[b].amount

(***************************************************************************)
(* C18.  No partial funding: in every reachable state a PendingFunding     *)
(* invoice has funded_amount = 0 and the default identity as investor, and *)
(* a Funded, Repaid or Defaulted invoice has funded_amount = amount and as *)
(* investor the caller of the successful fund_invoice, which never changes *)
(* afterwards; fund_invoice on a PendingFunding invoice with an amount     *)
(* other than invoice.amount is rejected with InvalidFundingAmount.        *)
(***************************************************************************)
FundedInFull ==
    \A id \in DOMAIN invoices :
        LET invoice == invoices[id] IN
        IF invoice.status = "PendingFunding"
            THEN /\ invoice.funded_amount = Zero
                 /\ invoice.investor = DefaultPubkey
                 /\ \A investor \in Parties, amount \in AnyFundAmounts,
                       cpi_error \in 0..2 :
                        amount # invoice.amount =>
                            fund_invoice_result(id, investor, amount, cpi_error)
                                = "InvalidFundingAmount"
            ELSE /\ invoice.funded_amount = invoice.amount
                 /\ invoice.investor \in Parties

InvestorRecordedOnce ==
    \A id \in DOMAIN invoices :
        LET old == invoices[id]
            new == invoices'[id]
        IN  IF old.status = "PendingFunding"
                THEN new.status # "PendingFunding" =>
                        \E caller \in Parties :
                            /\ new.investor = caller
                            /\ fund_invoice(id, caller, old.amount, 0)
                ELSE /\ new.investor = old.investor
                     /\ new.funded_amount = old.funded_amount

C18_NoPartialFunding == []FundedInFull /\ [][InvestorRecordedOnce]_vars

\* One invoice awaits funding while the other was funded by somebody other
\* than its owner and has since been repaid.
C18_Witness ==
    \E a \in DOMAIN invoices, b \in DOMAIN invoices :
        /\ invoices[a].status = "PendingFunding"
        /\ invoices[b].status = "Repaid"
        /\ invoices[b].investor # invoices[b].business_owner
        /\ fund_invoice_result(a, invoices[b].investor, Num(1), 0)
               = "InvalidFundingAmount"

(***************************************************************************)
(* C19.  Operations on different invoices are independent: for any two     *)
(* distinct PendingFunding invoices, funding them in either order (each    *)
(* funding atomic and accepted) yields the same final state, with          *)
(* total_funded increased by the sum of both amounts and                   *)
(* insurance_pool_balance by the sum of both premiums, and an operation on *)
(* one invoice never changes another invoice's record.                     *)
(***************************************************************************)
Accounts_now ==
    [invoices |-> invoices, token |-> token, global_state |-> global_state]

\* Funding a by ia and then b by ib is accepted at both steps.
FundedInOrder(a, ia, b, ib) ==
    /\ FundAccepted(Accounts_now, a, ia)
    /\ FundAccepted(FundApplied(Accounts_now, a, ia), b, ib)

FundingCommutes ==
    \A a \in DOMAIN invoices, b \in DOMAIN invoices,
       ia \in Parties, ib \in Parties :
        /\ a # b
        /\ FundedInOrder(a, ia, b, ib)
        /\ FundedInOrder(b, ib, a, ia)
        => LET ab == FundApplied(FundApplied(Accounts_now, a, ia), b, ib)
               ba == FundApplied(FundApplied(Accounts_now, b, ib), a, ia)
           IN  /\ ab = ba
               /\ ab.global_state.total_funded =
                     Add(global_state.total_funded,
                         Add(invoices[a].amount, invoices[b].amount))
               /\ ab.global_state.insurance_pool_balance =
                     Add(global_state.insurance_pool_balance,
                         Add(invoices[a].insurance_premium,
                             invoices[b].insurance_premium))

OneInvoicePerOperation ==
    \/ UNCHANGED vars
    \/ \A id \in DOMAIN invoices :
        \* the accepted fundings are the function FundApplied of the accounts
        /\ invoices[id].status = "PendingFunding"
           /\ invoices'[id].status = "Funded"
           => /\ FundAccepted(Accounts_now, id, invoices'[id].investor)
              /\ [invoices |-> invoices', token |-> token',
                  global_state |-> global_state']
                     = FundApplied(Accounts_now, id, invoices'[id].investor)
        \* an operation on id leaves every other record as it was
        /\ (\/ \E investor \in Parties, amount \in AnyFundAmounts :
                 fund_invoice(id, investor, amount, 0)
            \/ \E business_owner \in Parties,
                  repayment_amount \in RepayAmounts,
                  overflow_checks \in BOOLEAN :
                 repay_invoice(id, business_owner, repayment_amount,
                               overflow_checks, 0)
            \/ \E investor \in Parties, overflow_checks \in BOOLEAN :
                 claim_insurance(id, investor, overflow_checks, 0))
           => \A other \in DOMAIN invoices \ {id} :
                 invoices'[other] = invoices[other]

C19_Independence == []FundingCommutes /\ [][OneInvoicePerOperation]_vars

\* Two invoices of different amounts and owners await funding, and two
\* different investors can fund them in either order.
C19_Witness ==
    \E a \in DOMAIN invoices, b \in DOMAIN invoices,
       ia \in Parties, ib \in Parties :
        /\ invoices[a].amount # invoices[b].amount
        /\ invoices[a].business_owner # invoices[b].business_owner
        /\ ia # ib
        /\ FundedInOrder(a, ia, b, ib)
        /\ FundedInOrder(b, ib, a, ia)

(***************************************************************************)
(* C20.  For every originator identity, the pseudo-credit score the risk   *)
(* engine computes as (byte * 3 + 600) mod 850 from the identity's first   *)
(* byte and returns as estimated_credit_score, stored as the invoice's     *)
(* credit_score, lies in [600, 850).                                       *)
(***************************************************************************)
C20_CreditScoreRange ==
    \A id \in DOMAIN invoices :
        /\ invoices[id].credit_score =
              (((invoices[id].business_owner % 256) * 3) + 600) % 850
        /\ invoices[id].credit_score >= 600
        /\ invoices[id].credit_score < 850

(***************************************************************************)
(* C21.  Every invoice created through create_invoice has risk_score >= 20 *)
(* (base 10, at least 5 for the amount, 5 for the industry), so risk_score *)
(* is always in [20,50]; the coverage applied by any claim_insurance is    *)
(* therefore 70, 80 or 90 percent, never 60, and it is 90 only when        *)
(* risk_score is exactly 20.                                               *)
(***************************************************************************)
\* The score the risk engine gives every input create_invoice accepts, over
\* the tier edges of amount and term and every first byte of the owner.
RiskFloorOverInputs ==
    \A amount \in WideAmounts, due_date \in WideDueDates, byte \in 0..255 :
        /\ Lt(Zero, amount) /\ Le(amount, MAX_AMOUNT)
        /\ due_date > StartTime /\ due_date <= StartTime + MAX_TERM
        => LET risk_score ==
                   calculate_enhanced_risk(amount, due_date, 256 + byte,
                                           StartTime).risk_score
           IN  /\ risk_score >= 20 /\ risk_score <= 50
               /\ CoveragePercentage(risk_score) \in {70, 80, 90}
               /\ CoveragePercentage(risk_score) = 90 <=> risk_score = 20

RiskFloor ==
    /\ RiskFloorOverInputs
    /\ \A id \in DOMAIN invoices :
          /\ invoices[id].risk_score >= 20
          /\ invoices[id].risk_score <= 50
          /\ CoveragePercentage(invoices[id].risk_score) # 60

CoverageOfClaims ==
    \A id \in DOMAIN invoices :
        invoices[id].status = "Funded" /\ invoices'[id].status = "Defaulted" =>
            LET payout == invoices'[id].insurance_payout[1]
                funded == invoices[id].funded_amount
            IN  /\ \E coverage \in {70, 80, 90} :
                      payout = Div(Mul(funded, coverage), 100)
                /\ payout = Div(Mul(funded, 90), 100)
                      <=> invoices[id].risk_score = 20

C21_RiskFloor == []RiskFloor /\ [][CoverageOfClaims]_vars

\* A claim has been paid on an invoice of the lowest risk there is.
C21_Witness ==
    \E id \in DOMAIN invoices :
        /\ invoices[id].status = "Defaulted"
        /\ invoices[id].risk_score = 20
        /\ invoices[id].insurance_payout
               = Some(Div(Mul(invoices[id].funded_amount, 90), 100))


(***************************************************************************)
(* C22  An invoice's own premium never covers its own payout.              *)
(*                                                                         *)
(* The pool starts empty and only the ledger's operations move its funds   *)
(* (Init, NextPair).  For every amount of at least 2 and every risk score  *)
(* create_invoice can record, the premium floor(amount * risk / 1000) is   *)
(* below the payout floor(amount * coverage / 100).  So while a funded     *)
(* invoice with funded_amount >= 2 is the only one ever funded, every      *)
(* claim_insurance on it is rejected, with InsufficientInsurancePool when  *)
(* the recorded investor claims after the grace period; repayment is       *)
(* closed by then, so the invoice stays Funded and unchanged for as long   *)
(* as no other invoice is funded.  A claim that pays out a non-zero amount *)
(* is accepted only in a state where another funded invoice has put a      *)
(* non-zero premium into the pool.                                         *)
(***************************************************************************)
\* The risk scores create_invoice can record (C21).
RecordedRisks == 20..50

\* Amounts from 2 up, small and large, for the arithmetic of the claim.
PayoutAmounts ==
    {Num(n) : n \in 2..120}
        \cup {Mul(Num(1000000), k) : k \in {1, 7, 50, 9999, 10000}}

PremiumBelowPayout ==
    \A amount \in PayoutAmounts, risk_score \in RecordedRisks :
        /\ Le(Mul(InsurancePremium(amount, risk_score), 100), Mul(amount, 5))
        /\ Le(Mul(amount, 70),
              Add(Mul(Div(Mul(amount, CoveragePercentage(risk_score)), 100), 100),
                  Num(99)))
        /\ Lt(InsurancePremium(amount, risk_score),
              Div(Mul(amount, CoveragePercentage(risk_score)), 100))

OnlyOneFunded(id) ==
    /\ EverFunded = {id}
    /\ invoices[id].status = "Funded"
    /\ Le(Num(2), invoices[id].funded_amount)

SoleInvoiceUncovered ==
    \A id \in DOMAIN invoices :
        /\ (invoices[id].status = "Funded" /\ Le(Num(2), invoices[id].funded_amount))
               => Lt(invoices[id].insurance_premium, InsurancePayout(invoices[id]))
        /\ OnlyOneFunded(id) =>
               /\ token[InsurancePool] = invoices[id].insurance_premium
               /\ \A investor \in Parties, overflow_checks \in BOOLEAN,
                     cpi_error \in 0..1 :
                       /\ claim_insurance_result(id, investor, overflow_checks,
                                                 cpi_error) # "Ok"
                       /\ (PastGrace(id) /\ investor = invoices[id].investor)
                              => claim_insurance_result(id, investor,
                                     overflow_checks, cpi_error)
                                     = "InsufficientInsurancePool"

SoleInvoiceStaysFunded ==
    \A id \in DOMAIN invoices :
        (OnlyOneFunded(id) /\ PastGrace(id))
            => /\ id \in DOMAIN invoices'
               /\ \/ invoices'[id] = invoices[id]
                  \/ EverFunded' # {id}
               /\ invoices'[id].status = "Funded"

PaidByOtherPremiums ==
    \A id \in DOMAIN invoices :
        (/\ invoices[id].status = "Funded"
         /\ id \in DOMAIN invoices'
         /\ invoices'[id].status = "Defaulted"
         /\ invoices'[id].insurance_payout # Some(Zero))
            => \E other \in EverFunded \ {id} :
                   invoices[other].insurance_premium # Zero

C22_OwnPremiumNeverCovers ==
    /\ [](PremiumBelowPayout /\ SoleInvoiceUncovered)
    /\ [][SoleInvoiceStaysFunded /\ PaidByOtherPremiums]_vars

\* The smallest invoice of the claim, alone and past its grace period: its
\* investor's claim meets an empty pool.
C22_Witness ==
    \E id \in DOMAIN invoices :
        /\ OnlyOneFunded(id)
        /\ invoices[id].funded_amount = Num(2)
        /\ PastGrace(id)
        /\ claim_insurance_result(id, invoices[id].investor, TRUE, 0)
               = "InsufficientInsurancePool"

\* The other two cases of the claim: a sole invoice with a non-zero premium
\* is refused too, and a non-zero payout is made from another's premium.
C22_WitnessSolePremium ==
    \E id \in DOMAIN invoices :
        /\ OnlyOneFunded(id)
        /\ invoices[id].insurance_premium # Zero
        /\ PastGrace(id)

C22_WitnessPaidByOther ==
    \E id \in DOMAIN invoices :
        /\ invoices[id].status = "Defaulted"
        /\ invoices[id].insurance_payout # Some(Zero)
        /\ Lt(invoices[id].insurance_premium, InsurancePayout(invoices[id]))

====
